---- MODULE Spec2Model ----
(***************************************************************************)
(* DiskANN Python bindings (python/src/diskann_bindings.cpp).               *)
(*                                                                         *)
(* Two state machines share this module:                                   *)
(*   Spec        one DiskANNFloatIndex instance driven by load_index,      *)
(*               search, search_numpy_input, batch_search,                 *)
(*               batch_search_numpy_input and omp_set_num_threads; the     *)
(*               OpenMP parallel loops are interleaved worker steps.       *)
(*   SpecRecall  calculate_recall / calculate_recall_numpy_input, one      *)
(*               step per statement group of the per-query loop.           *)
(*                                                                         *)
(* PQFlashIndex (load, cache_bfs_levels, cached_beam_search) is declared   *)
(* in pq_flash_index.h, which is not among the sources; its behaviour is   *)
(* taken from the design document and kept in separate definitions.        *)
(***************************************************************************)
EXTENDS Integers, Sequences, FiniteSets

\* ------------------------------------------------------------------ bounds
MaxThreads == 2
MaxQueries == 2
MaxK == 2
MaxNodes == 2
MaxDims == 2
MaxId == 1
MaxDist == 2
WideDims == 11

\* num_nodes_to_cache in load_index
NumNodesToCache == 1000

VARIABLES
  state,          \* engine state of self.pq_flash_index: "Unloaded" / "Loaded"
  numNodes,       \* N of the loaded graph (0 while Unloaded)
  nthreads,       \* OpenMP nthreads-var, the process-wide thread count
  pc,             \* "idle" (no call running), "parallel" (inside an omp loop),
                  \* "returned" (the call is back in the caller),
                  \* "terminate" (std::terminate), "segfault" (the process crashed)
  opName,         \* binding entry point of the running / last call
  opRet,          \* how the last call ended: "none", "status", "ok", "exception"
  loadStatus,     \* load_success of the last load_index
  loadRet,        \* value returned by the last load_index
  cacheBudget,    \* budget given to cache_bfs_levels by the last load_index, 0 if not called
  ids,            \* the ids vector / array of the running or last call
  dists,          \* the dists vector / array of the running or last call
  u64_ids,        \* batch_search_numpy_input's shared std::vector<_u64>
  nq,             \* num_queries of the running / last call
  knn,            \* knn of the running / last call
  queries,        \* query vectors of the call, one value per query
  query_idx,      \* query_idx of the last search
  argThreads,     \* num_threads argument of the running / last batch call
  team,           \* number of threads of the omp parallel region
  next,           \* next loop iteration handed out by schedule(dynamic, 1)
  wk,             \* the team's busy threads: iteration, position in the loop body, local u64_ids
  dists0,         \* dists as it was when the call started searching (after any resize)
  failed,         \* queries of the call whose cached_beam_search failed with an I/O error
  completed,      \* queries of the call whose loop body ran to its end
  oob,            \* a write went outside a vector's storage
  servedUnloaded, \* cached_beam_search ran on an engine that was not loaded
  rfn,            \* "calculate_recall" or "calculate_recall_numpy_input" (same body)
  rpc,            \* calculate_recall: position in the function
  num_queries, ground_truth_dims, result_dims, recall_at, gtd_null,
  i,              \* calculate_recall: loop index
  total_recall, tie_breaker, cur_recall,
  gt_dist_vec,    \* ground-truth distances of query i
  gt_row,         \* ground-truth ids of query i
  gt, res,        \* the two std::set<unsigned>
  matched,        \* sum over processed queries of |gt set \cap first-k result set|
  recall          \* the returned double

indexVars == <<state, numNodes, nthreads, pc, opName, opRet, loadStatus, loadRet, cacheBudget, ids, dists, u64_ids, nq, knn, queries, query_idx, argThreads, team, next, wk, dists0, failed, completed, oob, servedUnloaded>>

recallVars == <<rfn, rpc, num_queries, ground_truth_dims, result_dims, recall_at, gtd_null, i, total_recall, tie_breaker, cur_recall, gt_dist_vec, gt_row, gt, res, matched, recall>>

vars == <<indexVars, recallVars>>

\* ----------------------------------------------------------------- helpers
Min(a, b) == IF a < b THEN a ELSE b

\* previous contents of a caller-supplied vector
Stale == 0 - 1

\* bit patterns of freshly allocated, unwritten array storage
Garbage == {0 - 2, 0 - 3}

Fill(n, v) == [j \in 1..n |-> v]

\* std::vector::resize(n): truncates, or appends value-initialised elements
resize(vec, n) == IF Len(vec) >= n THEN SubSeq(vec, 1, n) ELSE vec \o Fill(n - Len(vec), 0)

\* ptr[base + j] = vals[j] for j < Len(vals), inside the storage
WriteSlice(vec, base, vals) == [j \in 1..Len(vec) |-> IF base < j /\ j <= base + Len(vals) THEN vals[j - base] ELSE vec[j]]

InBounds(vec, base, n) == base + n <= Len(vec)

\* ------------------------------------------------ double (IEEE-754 binary64)
\* A positive double is [sig, exp]: sig its 53 significand bits, most significant
\* (always 1) first, and its value is sig * 2^exp. Zero has the empty significand.
\* Every operation rounds to nearest, ties to even. The values of calculate_recall
\* stay far from overflow, underflow, infinities and NaN.
MantBits == 53

Zero == [sig |-> <<>>, exp |-> 0]

RECURSIVE Pow2(_)
Pow2(n) == IF n = 0 THEN 1 ELSE 2 * Pow2(n - 1)

\* a / b scaled by powers of two into [1, 2): <<a', b', p>> with a / b = (a' / b') * 2^p
RECURSIVE ScaleUp(_, _, _)
ScaleUp(a, b, p) == IF a < b THEN ScaleUp(2 * a, b, p - 1) ELSE <<a, b, p>>

RECURSIVE ScaleDown(_, _, _)
ScaleDown(a, b, p) == IF a >= 2 * b THEN ScaleDown(a, 2 * b, p + 1) ELSE <<a, b, p>>

\* n base-1024 digits of r / b (r < b) after the binary point, and the remainder left
RECURSIVE DivDigits(_, _, _)
DivDigits(r, b, n) ==
  IF n = 0 THEN [digits |-> <<>>, rem |-> r]
  ELSE LET rest == DivDigits((r * 1024) % b, b, n - 1)
       IN [digits |-> <<(r * 1024) \div b>> \o rest.digits, rem |-> rest.rem]

\* the bits of a sequence of w-bit digits, most significant first
DigitBits(digits, w) == [j \in 1..(w * Len(digits)) |-> (digits[((j - 1) \div w) + 1] \div Pow2(w - 1 - ((j - 1) % w))) % 2]

\* the next double above x
Inc(x) ==
  LET zeros == {j \in 1..Len(x.sig) : x.sig[j] = 0}
  IN IF zeros = {}
       THEN [sig |-> [j \in 1..Len(x.sig) |-> IF j = 1 THEN 1 ELSE 0], exp |-> x.exp + 1]
       ELSE LET z == CHOOSE j \in zeros : \A k \in zeros : k <= j
            IN [sig |-> [j \in 1..Len(x.sig) |-> IF j < z THEN x.sig[j] ELSE IF j = z THEN 1 ELSE 0], exp |-> x.exp]

\* bits (leading 1, more than 54 of them) * 2^e, plus a non-zero rest below them when
\* sticky, rounded to 53 bits
Round(bits, e, sticky) ==
  LET kept == [sig |-> SubSeq(bits, 1, MantBits), exp |-> e + (Len(bits) - MantBits)]
      guard == bits[MantBits + 1]
      low == sticky \/ \E j \in (MantBits + 2)..Len(bits) : bits[j] = 1
  IN IF guard = 1 /\ (low \/ bits[MantBits] = 1) THEN Inc(kept) ELSE kept

\* (double)a / (double)b for integers a >= 0, b > 0 that a double holds exactly
DivDouble(a, b) ==
  IF a = 0 THEN Zero
  ELSE LET u == ScaleUp(a, b, 0)
           s == ScaleDown(u[1], u[2], u[3])
           d == DivDigits(s[1] - s[2], s[2], 6)
       IN Round(<<1>> \o DigitBits(d.digits, 10), s[3] - 60, d.rem # 0)

\* bit of weight 2^w of x's significand
BitAt(x, w) == x.sig[MantBits - w]

\* number of partial-product bits of weight 2^c in sig(x) * sig(y)
Column(x, y, c) == Cardinality({w \in 0..(MantBits - 1) : c - w \in 0..(MantBits - 1) /\ BitAt(x, w) = 1 /\ BitAt(y, c - w) = 1})

\* columns 20 * b + j .. 20 * b + 19 summed with their weights
RECURSIVE ColSum(_, _, _, _)
ColSum(x, y, b, j) == IF j = 20 THEN 0 ELSE Column(x, y, 20 * b + j) * Pow2(j) + ColSum(x, y, b, j + 1)

\* sig(x) * sig(y) as six base-2^20 digits, least significant first
RECURSIVE ProdDigits(_, _, _, _)
ProdDigits(x, y, b, carry) ==
  IF b = 6 THEN <<>>
  ELSE LET t == ColSum(x, y, b, 0) + carry
       IN <<t % 1048576>> \o ProdDigits(x, y, b + 1, t \div 1048576)

Reverse(s) == [j \in 1..Len(s) |-> s[Len(s) + 1 - j]]

\* x * y
MulDouble(x, y) ==
  IF x.sig = <<>> \/ y.sig = <<>> THEN Zero
  ELSE LET p == DigitBits(Reverse(ProdDigits(x, y, 0, 0)), 20)
           lead == CHOOSE j \in 1..Len(p) : p[j] = 1 /\ \A k \in 1..(j - 1) : p[k] = 0
       IN Round(SubSeq(p, lead, Len(p)), x.exp + y.exp, FALSE)

\* x < y
Less(x, y) ==
  IF y.sig = <<>> THEN FALSE
  ELSE IF x.sig = <<>> THEN TRUE
  ELSE IF x.exp # y.exp THEN x.exp < y.exp
  ELSE LET d == {j \in 1..MantBits : x.sig[j] # y.sig[j]}
       IN d # {} /\ LET j == CHOOSE a \in d : \A b \in d : a <= b IN x.sig[j] < y.sig[j]

\* ------------------------------------------------- PQFlashIndex (from the design)
Nodes(N) == 0..(N - 1)

ApproxDistance(qv, n) == (qv - n) * (qv - n)

\* ascending approximate distance, ties broken by smaller node id
Before(qv, a, b) == ApproxDistance(qv, a) < ApproxDistance(qv, b) \/ (ApproxDistance(qv, a) = ApproxDistance(qv, b) /\ a < b)

Rank(qv, N, n) == Cardinality({m \in Nodes(N) : Before(qv, m, n)})

\* top k of the best-L set: at most k entries, fewer when the graph holds fewer nodes
cached_beam_search(qv, k, N) == [j \in 1..Min(k, N) |-> CHOOSE n \in Nodes(N) : Rank(qv, N, n) = j - 1]

ResultDists(qv, r) == [j \in 1..Len(r) |-> ApproxDistance(qv, r[j])]

\* PQFlashIndex::load: 0 on success, the instance is queryable only then
load(status) == IF status = 0 THEN "Loaded" ELSE "Unloaded"

\* how one cached_beam_search call can end. A failed read aborts the query; the call
\* has no status to return, so it either throws ("ioerror") or returns having stored
\* no result ("silent"). On an instance that was never loaded it dereferences
\* unset state ("crash") or finds nothing to traverse ("nothing").
EngineOutcomes(st) == IF st = "Loaded" THEN {"ok", "ioerror", "silent"} ELSE {"crash", "nothing"}

\* outcomes in which the query was aborted by a failed read
Aborted == {"ioerror", "silent"}

\* what a write outside a vector's storage can do
UBOutcomes == {"crash", "corrupt"}

\* ------------------------------------------------------------- call inputs
\* query vectors: nearest to the first node, nearest to the last
QueryVals == {0, MaxNodes - 1}

LoadStatuses == {0 - 1, 0, 1}

\* lengths a caller-supplied vector is tried with: one short of the needed
\* knn * num_queries (>= 1), exactly that, one more
LenChoices(need) == {need - 1, need, need + 1}

\* ------------------------------------------------------------------- Init
RecallIdle == rfn = "none" /\ rpc = "off" /\ num_queries = 0 /\ ground_truth_dims = 0 /\ result_dims = 0 /\ recall_at = 0 /\ gtd_null = FALSE /\ i = 0 /\ total_recall = 0 /\ tie_breaker = 0 /\ cur_recall = 0 /\ gt_dist_vec = <<>> /\ gt_row = <<>> /\ gt = {} /\ res = {} /\ matched = 0 /\ recall = Zero

\* no call is running and the caller holds no vectors of an earlier call
NoCall ==
  /\ pc = "idle" /\ opName = "none" /\ opRet = "none"
  /\ ids = <<>> /\ dists = <<>> /\ u64_ids = <<>> /\ dists0 = <<>>
  /\ nq = 0 /\ knn = 0 /\ queries = <<>> /\ query_idx = 0
  /\ argThreads = 0 /\ team = 0 /\ next = 0 /\ wk = {}
  /\ failed = {} /\ completed = {}
  /\ oob = FALSE /\ servedUnloaded = FALSE

\* DiskANNIndex(): a fresh PQFlashIndex, nothing loaded; the OpenMP default thread count
IndexInit ==
  /\ state = "Unloaded" /\ numNodes = 0
  /\ nthreads \in 1..MaxThreads
  /\ loadStatus = 0 /\ loadRet = 0 /\ cacheBudget = 0
  /\ NoCall

Init == IndexInit /\ RecallIdle

\* ---------------------------------------------------------------- actions
\* m.def("omp_set_num_threads", ...)
omp_set_num_threads ==
  /\ pc = "idle"
  /\ \E n \in 1..MaxThreads : nthreads' = n
  /\ pc' = "returned" /\ opName' = "omp_set_num_threads" /\ opRet' = "ok"
  /\ UNCHANGED <<state, numNodes, loadStatus, loadRet, cacheBudget, servedUnloaded>>
  /\ UNCHANGED <<nq, knn, queries, query_idx, argThreads, team, next, wk, dists0, failed, completed, oob, ids, dists, u64_ids>>
  /\ UNCHANGED recallVars

\* load_index warming the cache and returning 0 whatever load returned
LoadIndexIgnoresStatus(load_success, N) ==
  /\ loadStatus' = load_success
  /\ state' = load(load_success)
  /\ numNodes' = IF load_success = 0 THEN N ELSE 0
  /\ loadRet' = 0 /\ cacheBudget' = NumNodesToCache

\* load_index after pq_flash_index->load returned load_success for a graph of N nodes
LoadIndexBody(load_success, N) ==
  /\ loadStatus' = load_success
  /\ state' = load(load_success)
  /\ numNodes' = IF load_success = 0 THEN N ELSE 0
  /\ IF load_success # 0
       THEN loadRet' = load_success /\ cacheBudget' = 0
       ELSE loadRet' = 0 /\ cacheBudget' = NumNodesToCache

load_index ==
  /\ pc = "idle"
  /\ \E load_success \in LoadStatuses, N \in 1..MaxNodes : LoadIndexBody(load_success, N)
  /\ pc' = "returned" /\ opName' = "load_index" /\ opRet' = "status"
  /\ UNCHANGED <<nthreads, servedUnloaded>>
  /\ UNCHANGED <<nq, knn, queries, query_idx, argThreads, team, next, wk, dists0, failed, completed, oob, ids, dists, u64_ids>>
  /\ UNCHANGED recallVars

\* ids.resize / dists.resize, both guarded by ids.size() alone
ResizedIds(v_ids, need) == IF Len(v_ids) < need THEN resize(v_ids, need) ELSE v_ids

ResizedDists(v_ids, v_dists, need) == IF Len(v_ids) < need THEN resize(v_dists, need) ELSE v_dists

\* std::vector<_u64> u64_ids(knn) after the engine stored its r results in it
Padded(r, k) == r \o Fill(k - Len(r), 0)

\* offset of query q's results in ids / dists / u64_ids
SliceBase(q, k) == q * k

\* one cached_beam_search call and the copy loop after it, on vectors v_ids / v_dists
SearchBody(v_ids, v_dists, qi, k, qv, out, ub) ==
  LET r == IF out = "ok" THEN cached_beam_search(qv, k, numNodes) ELSE <<>>
      base == SliceBase(qi, k)
  IN /\ servedUnloaded' = (state # "Loaded")
     /\ dists0' = v_dists
     /\ CASE out = "crash" -> pc' = "segfault" /\ opRet' = "none" /\ oob' = FALSE /\ ids' = v_ids /\ dists' = v_dists
          [] out = "ioerror" -> pc' = "returned" /\ opRet' = "exception" /\ oob' = FALSE /\ ids' = v_ids /\ dists' = v_dists
          [] OTHER ->
               IF InBounds(v_dists, base, Len(r))
                 THEN /\ pc' = "returned" /\ opRet' = "ok" /\ oob' = FALSE
                      /\ dists' = WriteSlice(v_dists, base, ResultDists(qv, r))
                      /\ ids' = WriteSlice(v_ids, base, Padded(r, k))
                 ELSE IF ub = "crash"
                   THEN pc' = "segfault" /\ opRet' = "none" /\ oob' = TRUE /\ ids' = v_ids /\ dists' = v_dists
                   ELSE /\ pc' = "returned" /\ opRet' = "ok" /\ oob' = TRUE
                        /\ dists' = v_dists
                        /\ ids' = WriteSlice(v_ids, base, Padded(r, k))

\* .def("search", ...)
search ==
  /\ pc = "idle"
  /\ \E n \in 1..MaxQueries, k \in 1..MaxK, qi \in 0..(MaxQueries - 1), qv \in QueryVals :
       /\ qi < n
       /\ \E li \in LenChoices(k * n), ld \in LenChoices(k * n), out \in EngineOutcomes(state), ub \in UBOutcomes :
            /\ SearchBody(ResizedIds(Fill(li, Stale), k * n), ResizedDists(Fill(li, Stale), Fill(ld, Stale), k * n), qi, k, qv, out, ub)
            /\ failed' = IF out \in Aborted THEN {qi} ELSE {}
            /\ completed' = IF opRet' = "ok" THEN {qi} ELSE {}
       /\ nq' = n /\ knn' = k /\ query_idx' = qi
       /\ queries' = [j \in 1..n |-> qv]
  /\ opName' = "search"
  /\ u64_ids' = <<>> /\ argThreads' = 0 /\ team' = 0 /\ next' = 0 /\ wk' = {}
  /\ UNCHANGED <<state, numNodes, nthreads, loadStatus, loadRet, cacheBudget>>
  /\ UNCHANGED recallVars

\* .def("search_numpy_input", ...): fresh, unwritten arrays of knn entries
search_numpy_input ==
  /\ pc = "idle"
  /\ \E k \in 1..MaxK, qv \in QueryVals, g \in Garbage, out \in EngineOutcomes(state) :
       /\ SearchBody(Fill(k, g), Fill(k, g), 0, k, qv, out, "crash")
       /\ failed' = IF out \in Aborted THEN {0} ELSE {}
       /\ completed' = IF opRet' = "ok" THEN {0} ELSE {}
       /\ nq' = 1 /\ knn' = k /\ query_idx' = 0
       /\ queries' = <<qv>>
  /\ opName' = "search_numpy_input"
  /\ u64_ids' = <<>> /\ argThreads' = 0 /\ team' = 0 /\ next' = 0 /\ wk' = {}
  /\ UNCHANGED <<state, numNodes, nthreads, loadStatus, loadRet, cacheBudget>>
  /\ UNCHANGED recallVars

\* entering "#pragma omp parallel for schedule(dynamic, 1)" with a team of t threads
Fork(t) ==
  /\ pc' = "parallel" /\ team' = t /\ next' = 0 /\ wk' = {}
  /\ failed' = {} /\ completed' = {} /\ oob' = FALSE /\ query_idx' = 0 /\ opRet' = "none"
  /\ servedUnloaded' = FALSE

\* .def("batch_search", ...) up to the parallel loop
batch_search ==
  /\ pc = "idle"
  /\ \E n \in 1..MaxQueries, k \in 1..MaxK, num_threads \in 1..MaxThreads :
       /\ \E qs \in [1..n -> QueryVals], li \in LenChoices(k * n), ld \in LenChoices(k * n) :
            /\ queries' = qs
            /\ ids' = ResizedIds(Fill(li, Stale), k * n)
            /\ dists' = ResizedDists(Fill(li, Stale), Fill(ld, Stale), k * n)
            /\ dists0' = dists'
       /\ nq' = n /\ knn' = k /\ argThreads' = num_threads
       /\ nthreads' = num_threads
       /\ Fork(num_threads)
  /\ opName' = "batch_search"
  /\ u64_ids' = <<>>
  /\ UNCHANGED <<state, numNodes, loadStatus, loadRet, cacheBudget>>
  /\ UNCHANGED recallVars

\* .def("batch_search_numpy_input", ...) up to the parallel loop
batch_search_numpy_input ==
  /\ pc = "idle"
  /\ \E n \in 1..MaxQueries, k \in 1..MaxK, num_threads \in 1..MaxThreads :
       /\ \E qs \in [1..n -> QueryVals], g \in Garbage :
            /\ queries' = qs
            /\ ids' = Fill(k * n, g)
            /\ dists' = Fill(k * n, g)
            /\ dists0' = dists'
       /\ u64_ids' = Fill(k * n, 0)
       /\ nq' = n /\ knn' = k /\ argThreads' = num_threads
       /\ Fork(nthreads)
  /\ opName' = "batch_search_numpy_input"
  /\ UNCHANGED <<state, numNodes, nthreads, loadStatus, loadRet, cacheBudget>>
  /\ UNCHANGED recallVars

\* a free thread of the team takes the next iteration; batch_search constructs its local u64_ids(knn)
worker_take ==
  /\ pc = "parallel"
  /\ next < nq
  /\ Cardinality(wk) < team
  /\ wk' = wk \cup {[q |-> next, st |-> "search", buf |-> IF opName = "batch_search" THEN Fill(knn, 0) ELSE <<>>]}
  /\ next' = next + 1
  /\ UNCHANGED <<state, numNodes, nthreads, pc, opName, opRet, loadStatus, loadRet, cacheBudget, servedUnloaded>>
  /\ UNCHANGED <<nq, knn, queries, query_idx, argThreads, team, dists0, failed, completed, oob, ids, dists, u64_ids>>
  /\ UNCHANGED recallVars

\* the thread's cached_beam_search call returned r: ids into a u64 buffer, distances into dists
WorkerStore(t, r) ==
  /\ dists' = WriteSlice(dists, SliceBase(t.q, knn), ResultDists(queries[t.q + 1], r))
  /\ IF opName = "batch_search"
       THEN /\ wk' = (wk \ {t}) \cup {[t EXCEPT !.st = "copy", !.buf = WriteSlice(t.buf, 0, r)]}
            /\ UNCHANGED <<u64_ids, completed>>
       ELSE /\ wk' = wk \ {t}
            /\ u64_ids' = WriteSlice(u64_ids, SliceBase(t.q, knn), r)
            /\ completed' = completed \cup {t.q}

worker_search ==
  /\ pc = "parallel"
  /\ \E t \in wk, out \in EngineOutcomes(state), ub \in UBOutcomes :
       /\ t.st = "search"
       /\ servedUnloaded' = (servedUnloaded \/ state # "Loaded")
       /\ LET r == IF out = "ok" THEN cached_beam_search(queries[t.q + 1], knn, numNodes) ELSE <<>>
          IN CASE out = "crash" -> pc' = "segfault" /\ UNCHANGED <<wk, dists, u64_ids, failed, completed, oob>>
               [] out = "ioerror" -> pc' = "terminate" /\ failed' = failed \cup {t.q} /\ UNCHANGED <<wk, dists, u64_ids, completed, oob>>
               [] OTHER ->
                    /\ failed' = IF out = "silent" THEN failed \cup {t.q} ELSE failed
                    /\ IF InBounds(dists, SliceBase(t.q, knn), Len(r))
                         THEN WorkerStore(t, r) /\ UNCHANGED <<pc, oob>>
                         ELSE IF ub = "crash"
                           THEN pc' = "segfault" /\ oob' = TRUE /\ UNCHANGED <<wk, dists, u64_ids, completed>>
                           ELSE /\ oob' = TRUE
                                /\ wk' = (wk \ {t}) \cup {[t EXCEPT !.st = "copy", !.buf = WriteSlice(t.buf, 0, r)]}
                                /\ UNCHANGED <<pc, dists, u64_ids, completed>>
  /\ UNCHANGED <<state, numNodes, nthreads, opName, opRet, loadStatus, loadRet, cacheBudget>>
  /\ UNCHANGED <<nq, knn, queries, query_idx, argThreads, team, next, dists0, ids>>
  /\ UNCHANGED recallVars

\* batch_search: for (i < knn) ids[(q * knn) + i] = u64_ids[i]
worker_copy ==
  /\ pc = "parallel"
  /\ \E t \in wk :
       /\ t.st = "copy"
       /\ ids' = WriteSlice(ids, SliceBase(t.q, knn), t.buf)
       /\ completed' = completed \cup {t.q}
       /\ wk' = wk \ {t}
  /\ UNCHANGED <<state, numNodes, nthreads, pc, opName, opRet, loadStatus, loadRet, cacheBudget, servedUnloaded>>
  /\ UNCHANGED <<nq, knn, queries, query_idx, argThreads, team, next, dists0, failed, oob, dists, u64_ids>>
  /\ UNCHANGED recallVars

\* the implicit barrier ending the loop, then the rest of the entry point
batch_end ==
  /\ pc = "parallel"
  /\ next = nq
  /\ wk = {}
  /\ pc' = "returned" /\ opRet' = "ok"
  /\ ids' = IF opName = "batch_search_numpy_input" THEN [j \in 1..Len(ids) |-> u64_ids[j]] ELSE ids
  /\ UNCHANGED <<state, numNodes, nthreads, opName, loadStatus, loadRet, cacheBudget, servedUnloaded>>
  /\ UNCHANGED <<nq, knn, queries, query_idx, argThreads, team, next, wk, dists0, failed, completed, oob, dists, u64_ids>>
  /\ UNCHANGED recallVars

\* the caller is done with the vectors and the return value of the finished call
release ==
  /\ pc = "returned"
  /\ pc' = "idle" /\ opName' = "none" /\ opRet' = "none"
  /\ ids' = <<>> /\ dists' = <<>> /\ u64_ids' = <<>> /\ dists0' = <<>>
  /\ nq' = 0 /\ knn' = 0 /\ queries' = <<>> /\ query_idx' = 0
  /\ argThreads' = 0 /\ team' = 0 /\ next' = 0 /\ wk' = {}
  /\ failed' = {} /\ completed' = {}
  /\ oob' = FALSE /\ servedUnloaded' = FALSE
  /\ UNCHANGED <<state, numNodes, nthreads, loadStatus, loadRet, cacheBudget>>
  /\ UNCHANGED recallVars

Next ==
  \/ omp_set_num_threads
  \/ load_index
  \/ search
  \/ search_numpy_input
  \/ batch_search
  \/ batch_search_numpy_input
  \/ worker_take
  \/ worker_search
  \/ worker_copy
  \/ batch_end
  \/ release

Spec == Init /\ [][Next]_vars

\* ======================================================== calculate_recall
\* The rows of query i are read-only inputs; they are drawn when iteration i reads them.
\* Narrow calls take every row over a few ids and distances. Wide calls (rows of
\* WideDims entries) take the ground truth 0, 1, 2, ... with distances all tied, all
\* distinct or 1, 1, 2, 3, ... and results that miss the first m ranks.
RecallFns == {"calculate_recall", "calculate_recall_numpy_input"}

Ids == 0..MaxId

Distances == 1..MaxDist

DimPairs == ((1..MaxDims) \X (1..MaxDims)) \cup {<<WideDims, WideDims>>}

MaxRecallAt == IF WideDims > MaxDims THEN WideDims ELSE MaxDims

GtRows(d) == IF d <= MaxDims THEN [1..d -> Ids] ELSE {[j \in 1..d |-> j - 1]}

DistRows(d) == IF d <= MaxDims THEN [1..d -> Distances] ELSE {[j \in 1..d |-> 1], [j \in 1..d |-> j], [j \in 1..d |-> IF j <= 2 THEN 1 ELSE j - 1]}

ResRows(d) == IF d <= MaxDims THEN [1..d -> Ids] ELSE {[j \in 1..d |-> IF j <= m THEN d ELSE j - 1] : m \in 0..d}

\* while (tie_breaker < ground_truth_dims && gt_dist_vec[tie_breaker] == gt_dist_vec[recall_at - 1]) tie_breaker++
RECURSIVE TieLoop(_, _, _, _)
TieLoop(vec, t, dims, k) == IF t < dims /\ vec[t + 1] = vec[k] THEN TieLoop(vec, t + 1, dims, k) ELSE t

\* tie_breaker stays recall_at whatever the distances are
TieBreakerNoScan(vec, dims, k, null) == k

\* size_t tie_breaker = recall_at; if (gtd_ptr != nullptr) { tie_breaker = recall_at - 1; while ... }
TieBreaker(vec, dims, k, null) == IF null THEN k ELSE TieLoop(vec, k - 1, dims, k)

\* gt.insert(gti_ptr + ground_truth_dims * i, gti_ptr + ground_truth_dims * i + tie_breaker)
GtSet(row, t) == {row[j] : j \in 1..t}

\* the whole result row inserted instead of its first recall_at entries
ResSetWholeRow(row, k, rdims) == {row[j] : j \in 1..rdims}

\* res.insert(r_ptr + result_dims * i, r_ptr + result_dims * i + recall_at)
ResSet(row, k, rdims) == {row[j] : j \in 1..k}

\* for (auto &v : gt) if (res.find(v) != res.end()) cur_recall++
RECURSIVE CountFound(_, _)
CountFound(S, R) == IF S = {} THEN 0 ELSE LET v == CHOOSE x \in S : TRUE IN (IF v \in R THEN 1 ELSE 0) + CountFound(S \ {v}, R)

\* total_recall / (num_queries) * (100.0 / recall_at), in double arithmetic
RecallValue(total, n, k) == MulDouble(DivDouble(total, n), DivDouble(100, k))

\* RecallValue for every total_recall, num_queries and recall_at a call can end with
RecallValues == [n \in 1..MaxQueries |-> [k \in 1..MaxRecallAt |-> [t \in 0..(n * k) |-> RecallValue(t, n, k)]]]

\* distinct ids both in the ground-truth set and among the first k ids of the result row
Matches(gtset, rrow, k) == Cardinality({x \in gtset : \E b \in 1..k : rrow[b] = x})

IndexOff ==
  /\ state = "Unloaded" /\ numNodes = 0 /\ nthreads = 1
  /\ loadStatus = 0 /\ loadRet = 0 /\ cacheBudget = 0
  /\ NoCall

\* the call's scalar arguments; recall_at within both row widths
RecallInit ==
  /\ IndexOff
  /\ rfn \in RecallFns
  /\ rpc = "loop"
  /\ num_queries \in 1..MaxQueries
  /\ \E d \in DimPairs : ground_truth_dims = d[1] /\ result_dims = d[2]
  /\ recall_at \in 1..Min(ground_truth_dims, result_dims)
  /\ gtd_null \in BOOLEAN
  /\ i = 0 /\ total_recall = 0 /\ tie_breaker = 0 /\ cur_recall = 0
  /\ gt_dist_vec = <<>> /\ gt_row = <<>>
  /\ gt = {} /\ res = {} /\ matched = 0 /\ recall = Zero

\* loop head, gt.clear(), res.clear() and the tie-breaker scan of query i
rc_tie_breaker ==
  /\ rpc = "loop" /\ i < num_queries
  /\ \E vec \in DistRows(ground_truth_dims) :
       /\ gt_dist_vec' = IF gtd_null THEN <<>> ELSE vec
       /\ tie_breaker' = TieBreaker(vec, ground_truth_dims, recall_at, gtd_null)
  /\ gt' = {} /\ res' = {} /\ gt_row' = <<>>
  /\ rpc' = "gt"
  /\ UNCHANGED <<rfn, num_queries, ground_truth_dims, result_dims, recall_at, gtd_null, i, total_recall, cur_recall, matched, recall>>
  /\ UNCHANGED indexVars

rc_insert_gt ==
  /\ rpc = "gt"
  /\ \E row \in GtRows(ground_truth_dims) :
       /\ gt_row' = row
       /\ gt' = GtSet(row, tie_breaker)
  /\ gt_dist_vec' = <<>>
  /\ rpc' = "res"
  /\ UNCHANGED <<rfn, num_queries, ground_truth_dims, result_dims, recall_at, gtd_null, i, total_recall, tie_breaker, cur_recall, res, matched, recall>>
  /\ UNCHANGED indexVars

\* res.insert, the counting loop, total_recall += cur_recall, i++
rc_match ==
  /\ rpc = "res"
  /\ \E row \in ResRows(result_dims) :
       /\ res' = ResSet(row, recall_at, result_dims)
       /\ matched' = matched + Matches(gt, row, recall_at)
  /\ cur_recall' = CountFound(gt, res')
  /\ total_recall' = total_recall + cur_recall'
  /\ i' = i + 1
  /\ gt_row' = <<>>
  /\ rpc' = "loop"
  /\ UNCHANGED <<rfn, num_queries, ground_truth_dims, result_dims, recall_at, gtd_null, tie_breaker, gt_dist_vec, gt, recall>>
  /\ UNCHANGED indexVars

rc_return ==
  /\ rpc = "loop" /\ i = num_queries
  /\ recall' = RecallValues[num_queries][recall_at][total_recall]
  /\ rpc' = "done"
  /\ UNCHANGED <<rfn, num_queries, ground_truth_dims, result_dims, recall_at, gtd_null, i, total_recall, tie_breaker, cur_recall, gt_dist_vec, gt_row, gt, res, matched>>
  /\ UNCHANGED indexVars

RecallNext ==
  \/ rc_tie_breaker
  \/ rc_insert_gt
  \/ rc_match
  \/ rc_return

SpecRecall == RecallInit /\ [][RecallNext]_vars

\* ================================================================== claims
SearchOps == {"search", "search_numpy_input"}

BatchOps == {"batch_search", "batch_search_numpy_input"}

\* the knn entries of vec that belong to query q
Slice(vec, q) == SubSeq(vec, SliceBase(q, knn) + 1, SliceBase(q, knn) + knn)

\* dists after the first n queries of the call ran one after the other
RECURSIVE SeqDists(_)
SeqDists(n) == IF n = 0 THEN dists0 ELSE WriteSlice(SeqDists(n - 1), SliceBase(n - 1, knn), ResultDists(queries[n], cached_beam_search(queries[n], knn, numNodes)))

\* C1: no query is serviced while the instance is Unloaded: cached_beam_search runs
\* only on an instance whose load_index completed successfully.
C1_NoQueryWhileUnloaded == ~servedUnloaded

C5_BatchMatchesSequential ==
  (opName \in BatchOps /\ state = "Loaded" /\ failed = {}) =>
    /\ ~oob
    /\ pc = "returned" =>
         /\ InBounds(ids, 0, knn * nq) /\ InBounds(dists, 0, knn * nq)
         /\ \A q \in 0..(nq - 1) :
              /\ Slice(ids, q) = Padded(cached_beam_search(queries[q + 1], knn, numNodes), knn)
              /\ Slice(dists, q) = Slice(SeqDists(nq), q)

\* C6: a query that fails in a batch aborts only itself: the batch goes on, returns, and
\* every sibling query has run to completion when it does.
C6_FailedQueryAbortsOnlyItself ==
  (opName \in BatchOps /\ failed # {}) =>
    /\ pc \in {"parallel", "returned"}
    /\ pc = "returned" => \A q \in 0..(nq - 1) : q \in failed \/ q \in completed

\* C7: the result a search on a loaded index returns is sorted by non-decreasing
\* distance, ties by smaller id, and holds no duplicate id.
C7_ResultSortedNoDuplicates ==
  (opName \in SearchOps /\ pc = "returned" /\ opRet = "ok" /\ failed = {} /\ state = "Loaded" /\ InBounds(dists, SliceBase(query_idx, knn), knn)) =>
    \A a, b \in 1..knn :
      a < b =>
        LET ia == ids[SliceBase(query_idx, knn) + a]
            ib == ids[SliceBase(query_idx, knn) + b]
            da == dists[SliceBase(query_idx, knn) + a]
            db == dists[SliceBase(query_idx, knn) + b]
        IN ia # ib /\ (da < db \/ (da = db /\ ia < ib))

\* C8: the team that runs a batch has as many threads as the call's num_threads argument.
C8_TeamSizeIsNumThreads == pc = "parallel" => team = argThreads

\* C9: in search and batch_search on a loaded index both vectors hold at least
\* knn * num_queries entries when results are written, no write leaves them, and
\* search leaves every entry outside [query_idx * knn, (query_idx + 1) * knn) as it was.
C9_WritesInsideVectors ==
  (opName \in {"search", "batch_search"} /\ state = "Loaded") =>
    /\ ~oob /\ Len(ids) >= knn * nq /\ Len(dists) >= knn * nq
    /\ (opName = "search" /\ pc = "returned") =>
         \A j \in 1..Len(dists) : (j <= SliceBase(query_idx, knn) \/ j > SliceBase(query_idx, knn) + knn) => dists[j] = dists0[j]

\* ---------------------------------------------------------- recall claims
\* the smallest t >= k with t = dims or vec[t] # vec[k - 1] (0-based indices)
TieEnd(vec, dims, k) == CHOOSE t \in k..dims : (t = dims \/ vec[t + 1] # vec[k]) /\ \A u \in k..(t - 1) : vec[u + 1] = vec[k]

\* the double 100.0
Hundred == DivDouble(100, 1)

\* x is at most four doubles away from y
RECURSIVE Above(_, _)
Above(y, n) == IF n = 0 THEN {y} ELSE {y} \cup Above(Inc(y), n - 1)

Near(x, y) == x = y \/ x \in Above(y, 4) \/ y \in Above(x, 4)

\* C3: the ground-truth set of a query is its first t ground-truth ids, t = k without
\* distances, otherwise the end of the run of entries tied with rank k, cut at
\* ground_truth_dims; one query, k = 1, a tie of two and a result among them give 100%.
C3_TieBreak ==
  /\ rpc = "gt" => tie_breaker = (IF gtd_null THEN recall_at ELSE TieEnd(gt_dist_vec, ground_truth_dims, recall_at))
  /\ rpc = "res" => gt = {gt_row[j] : j \in 1..tie_breaker}
  /\ (rpc = "done" /\ num_queries = 1 /\ recall_at = 1 /\ res \subseteq gt) => recall = Hundred

C3_Witness == rpc = "done" /\ num_queries = 1 /\ recall_at = 1 /\ ~gtd_null /\ tie_breaker = 2 /\ ground_truth_dims > 2 /\ Cardinality(gt) = 2 /\ res \subseteq gt /\ recall = Hundred

C10_RecallBounded ==
  /\ rpc \in {"loop", "done"} => (0 <= cur_recall /\ cur_recall <= recall_at /\ total_recall <= i * recall_at)
  /\ rpc = "done" => ~Less(recall, Zero) /\ ~Less(Hundred, recall)

====
